---- MODULE Spec2Model ----
(***************************************************************************)
(* The three command-line utilities of src/utils:                          *)
(*   count_csv_rows.py          (RowCounter)                               *)
(*   extract_distinct_values.py (DistinctValueExtractor)                   *)
(*   split_by_language.py       (LanguageSplitter)                         *)
(* Each utility is a sequential program; a run is modelled by a program    *)
(* counter and the program's local variables.  A Python str is a tuple of  *)
(* one-character strings, so that trimming, comparing and CSV quoting are  *)
(* computed and not assumed.                                               *)
(***************************************************************************)
EXTENDS Integers, Sequences, FiniteSets, TLC

VARIABLES
    \* ---- count_csv_rows.py --------------------------------------------
    c_pc,          \* position in count_csv_rows()
    c_rows,        \* the logical rows the file was written from (the input)
    csvfile,       \* the file's text
    c_pos,         \* the file object's read position, 1-based
    row_count,     \* rows the generator of line 36 has produced so far
    c_result,      \* what count_csv_rows() returned
    \* ---- extract_distinct_values.py -----------------------------------
    x_pc,          \* position in main()
    args,          \* the parsed command line (line 113)
    csv_file,      \* the resolved input path, or None
    fieldnames,    \* reader.fieldnames: the header row, once read
    headers,       \* what get_csv_headers() returned
    x_rows,        \* row[column_name] of the data rows read so far
    distinct_values,  \* set()
    value_counts,  \* Counter(): its items in insertion order
    results,       \* main's `results` list
    output_lines,  \* main's `output_lines`
    stdout,        \* the result lines printed, if any
    out_file,      \* the --output file: whether opened, and its content
    exit_code,     \* main's return value
    failure,       \* which failure the run met, "none" if none
    \* ---- split_by_language.py ------------------------------------------
    s_pc,          \* position in main()
    input_file,    \* INPUT_FILE: its header and its rows, as text
    df,            \* the DataFrame
    lang,          \* the labels apply() has computed so far
    detect_log,    \* per labelled row, what detect() did
    df_it, df_other, df_empty,
    output_it, output_other, output_empty,   \* the three files written
    raised         \* the exception that ended main(), "none" if none

cVars == <<c_pc, c_rows, csvfile, c_pos, row_count, c_result>>

xVars == <<x_pc, args, csv_file, fieldnames, headers, x_rows, distinct_values, value_counts,
           results, output_lines, stdout, out_file, exit_code, failure>>

sVars == <<s_pc, input_file, df, lang, detect_log, df_it, df_other, df_empty,
           output_it, output_other, output_empty, raised>>

vars == <<cVars, xVars, sVars>>

\* Python's None, and an int, as values of one variable.
None == [type |-> "NoneType"]
PyInt(n) == [type |-> "int", value |-> n]

\* A function that has not returned yet.
Running == [type |-> "running"]

\* The elements of a sequence.
Range(s) == {s[i] : i \in DOMAIN s}

\* All sequences over S of length at most n.
RECURSIVE SeqsUpTo(_, _)
SeqsUpTo(S, n) ==
    IF n = 0 THEN {<<>>}
    ELSE LET shorter == SeqsUpTo(S, n - 1)
         IN  shorter \cup {Append(s, x) : s \in {t \in shorter : Len(t) = n - 1}, x \in S}

(***************************************************************************)
(*                       count_csv_rows.py                                 *)
(***************************************************************************)

\* Rows per input file (header included).
MaxRows == 2

NL == "\n"
QUOTE == "\""
COMMA == ","
EOL == "EOL"

\* Field values of the input files: plain, empty, with an embedded newline
\* (the "multi<newline>line" of the example), with a quote then a newline.
Fields ==
    { <<"a">>, <<>>, <<"m", NL, "l">>, <<QUOTE, NL>> }

\* A logical row has one or two fields, or none: a blank line, which
\* csv.reader yields as the empty record [].
Rows ==
    {<<>>} \cup {<<f>> : f \in Fields} \cup {<<f, g>> : f \in Fields, g \in Fields}

\* ---- the file on disk: standard CSV escaping of the logical rows -------
RECURSIVE DoubleQuotes(_)
DoubleQuotes(f) ==
    IF f = <<>> THEN <<>>
    ELSE (IF Head(f) = QUOTE THEN <<QUOTE, QUOTE>> ELSE <<Head(f)>>)
             \o DoubleQuotes(Tail(f))

\* One field as written to the file; a lone empty field is written quoted.
CsvField(f, alone) ==
    IF (Range(f) \cap {QUOTE, COMMA, NL} # {}) \/ (alone /\ f = <<>>)
    THEN <<QUOTE>> \o DoubleQuotes(f) \o <<QUOTE>>
    ELSE f

RECURSIVE CsvFields(_, _)
CsvFields(r, alone) ==
    IF Len(r) = 1 THEN CsvField(r[1], alone)
    ELSE CsvField(Head(r), FALSE) \o <<COMMA>> \o CsvFields(Tail(r), FALSE)

CsvRow(r) ==
    (IF r = <<>> THEN <<>> ELSE CsvFields(r, Len(r) = 1)) \o <<NL>>

RECURSIVE CsvText(_)
CsvText(rows) ==
    IF rows = <<>> THEN <<>> ELSE CsvRow(Head(rows)) \o CsvText(Tail(rows))

\* The text of a file holding `rows`, whose last line may lack its newline
\* unless the line is blank.
FileText(rows, trailingNewline) ==
    LET t == CsvText(rows)
    IN  IF trailingNewline \/ rows = <<>> \/ rows[Len(rows)] = <<>>
        THEN t ELSE SubSeq(t, 1, Len(t) - 1)

\* ---- csv.reader: the parser the code delegates to ----------------------
\* parse_process_char of the default dialect (delimiter ',', quotechar '"',
\* doublequote, not strict).  p is [state, field_len].
parse_process_char(p, c) ==
    LET save(st) == [state |-> st, field_len |-> 0]
        add(st) == [state |-> st, field_len |-> p.field_len + 1]
        go(st) == [p EXCEPT !.state = st]
        start_field ==
            IF c \in {NL, EOL}
            THEN save(IF c = EOL THEN "START_RECORD" ELSE "EAT_CRNL")
            ELSE IF c = QUOTE THEN go("IN_QUOTED_FIELD")
            ELSE IF c = COMMA THEN save("START_FIELD")
            ELSE add("IN_FIELD")
    IN  CASE p.state = "START_RECORD" ->
                IF c = EOL THEN p
                ELSE IF c = NL THEN go("EAT_CRNL")
                ELSE start_field
          [] p.state = "START_FIELD" -> start_field
          [] p.state = "IN_FIELD" ->
                IF c \in {NL, EOL}
                THEN save(IF c = EOL THEN "START_RECORD" ELSE "EAT_CRNL")
                ELSE IF c = COMMA THEN save("START_FIELD")
                ELSE add("IN_FIELD")
          [] p.state = "IN_QUOTED_FIELD" ->
                IF c = EOL THEN p
                ELSE IF c = QUOTE THEN go("QUOTE_IN_QUOTED_FIELD")
                ELSE add("IN_QUOTED_FIELD")
          [] p.state = "QUOTE_IN_QUOTED_FIELD" ->
                IF c = QUOTE THEN add("IN_QUOTED_FIELD")
                ELSE IF c = COMMA THEN save("START_FIELD")
                ELSE IF c \in {NL, EOL}
                THEN save(IF c = EOL THEN "START_RECORD" ELSE "EAT_CRNL")
                ELSE add("IN_FIELD")
          [] p.state = "EAT_CRNL" ->
                IF c = NL THEN p
                ELSE IF c = EOL THEN go("START_RECORD")
                ELSE go("ERROR")
          [] OTHER -> p

\* The index of the last character of the line that starts at pos: the file
\* object yields lines with their newline kept (newline='').
RECURSIVE LineEnd(_, _)
LineEnd(text, pos) ==
    IF pos >= Len(text) \/ text[pos] = NL THEN pos ELSE LineEnd(text, pos + 1)

\* parse_process_char over the characters text[from..to].
RECURSIVE ParseLine(_, _, _, _)
ParseLine(text, from, to, p) ==
    IF from > to THEN p
    ELSE ParseLine(text, from + 1, to, parse_process_char(p, text[from]))

\* The raw file iterator: one item per physical line (not what the code uses).
file_iternext(text, pos) ==
    IF pos > Len(text) THEN [row |-> FALSE, pos |-> pos, error |-> FALSE]
    ELSE [row |-> TRUE, pos |-> LineEnd(text, pos) + 1, error |-> FALSE]

\* Reader_iternext: lines are consumed until the parser is back at
\* START_RECORD; at the end of input a pending field still makes a row.
RECURSIVE ReaderLoop(_, _, _)
ReaderLoop(text, pos, p) ==
    IF pos > Len(text)
    THEN [row |-> (p.field_len # 0 \/ p.state = "IN_QUOTED_FIELD"),
          pos |-> pos, error |-> FALSE]
    ELSE LET e == LineEnd(text, pos)
             q == parse_process_char(ParseLine(text, pos, e, p), EOL)
         IN  IF q.state = "ERROR" THEN [row |-> FALSE, pos |-> e + 1, error |-> TRUE]
             ELSE IF q.state = "START_RECORD"
             THEN [row |-> TRUE, pos |-> e + 1, error |-> FALSE]
             ELSE ReaderLoop(text, e + 1, q)

Reader_iternext(text, pos) ==
    ReaderLoop(text, pos, [state |-> "START_RECORD", field_len |-> 0])

\* ---- count_csv_rows(filename) ------------------------------------------
CntInit ==
    /\ c_pc = "start"
    /\ c_rows \in SeqsUpTo(Rows, MaxRows)
    /\ \E nl \in BOOLEAN : csvfile = FileText(c_rows, nl)
    /\ c_pos = 1
    /\ row_count = 0
    /\ c_result = Running

\* line 31: open() succeeds, or raises FileNotFoundError / PermissionError,
\* which lines 40-45 turn into None.
CntOpen ==
    /\ c_pc = "start"
    /\ \/ /\ c_pc' = "counting"
          /\ UNCHANGED c_result
       \/ /\ c_pc' = "returned"
          /\ c_result' = None
    /\ UNCHANGED <<c_rows, csvfile, c_pos, row_count>>
    /\ UNCHANGED <<xVars, sVars>>

\* line 36: the generator takes one more row from the reader.
CntRow ==
    /\ c_pc = "counting"
    /\ LET r == Reader_iternext(csvfile, c_pos)
       IN  /\ r.row
           /\ c_pos' = r.pos
           /\ row_count' = row_count + 1
    /\ UNCHANGED <<c_pc, c_rows, csvfile, c_result>>
    /\ UNCHANGED <<xVars, sVars>>

\* lines 36-38: the reader is exhausted; the sum is returned.
CntReturn ==
    /\ c_pc = "counting"
    /\ LET r == Reader_iternext(csvfile, c_pos)
       IN  ~r.row /\ ~r.error
    /\ c_pc' = "returned"
    /\ c_result' = PyInt(row_count)
    /\ UNCHANGED <<c_rows, csvfile, c_pos, row_count>>
    /\ UNCHANGED <<xVars, sVars>>

\* lines 46-48: reading or decoding fails under the reader (an I/O error, a
\* byte that is not UTF-8): the exception is caught and None returned.
CntReadError ==
    /\ c_pc = "counting"
    /\ c_pc' = "returned"
    /\ c_result' = None
    /\ UNCHANGED <<c_rows, csvfile, c_pos, row_count>>
    /\ UNCHANGED <<xVars, sVars>>

(***************************************************************************)
(*                    extract_distinct_values.py                           *)
(***************************************************************************)

\* Data rows of an input file of the extractor.
MaxDataRows == 3

\* ---- Python str ---------------------------------------------------------
\* Characters in code-point order: str comparison is by code point.
CodePoints ==
    <<" ", "B", "R", "a", "b", "d", "e", "l", "r", "u">>

ord(c) == CHOOSE i \in DOMAIN CodePoints : CodePoints[i] = c

Whitespace == {" ", "\t", NL}

\* str.strip(): leading and trailing whitespace removed.
RECURSIVE lstrip(_)
lstrip(s) ==
    IF s # <<>> /\ Head(s) \in Whitespace THEN lstrip(Tail(s)) ELSE s

RECURSIVE rstrip(_)
rstrip(s) ==
    IF s # <<>> /\ s[Len(s)] \in Whitespace
    THEN rstrip(SubSeq(s, 1, Len(s) - 1)) ELSE s

strip(s) == rstrip(lstrip(s))

\* a < b for two str.
RECURSIVE StrLess(_, _)
StrLess(a, b) ==
    IF b = <<>> THEN FALSE
    ELSE IF a = <<>> THEN TRUE
    ELSE IF Head(a) # Head(b) THEN ord(Head(a)) < ord(Head(b))
    ELSE StrLess(Tail(a), Tail(b))

\* The cell DictReader gives for a column a short row lacks (restval).
NoneCell == <<"None">>

\* Truth value of a cell: None and the empty str are false.
Truthy(value) == value # NoneCell /\ value # <<>>

\* ---- the input files ----------------------------------------------------
SKU == <<"s", "k", "u">>
COLOR == <<"c", "o", "l", "o", "r">>
SIZE == <<"s", "i", "z", "e">>
WEIGHT == <<"w", "e", "i", "g", "h", "t">>

\* Header rows: with the column, without it, with it padded by a space.
Headers ==
    { <<SKU, COLOR>>, <<SKU, SIZE>>, <<SKU, <<" ">> \o COLOR>> }

\* Cells of the target column: plain, upper case, padded, empty,
\* whitespace-only, missing.
Cells ==
    { <<"a">>, <<"B">>, <<" ", "a">>, <<>>, <<" ", " ">>, NoneCell }

\* The cells of the example: Red, red, Blue, "" and a whitespace-only str.
ExampleCells ==
    { <<"R", "e", "d">>, <<"r", "e", "d">>, <<"B", "l", "u", "e">>, <<>>, <<" ", " ">> }

\* s holds every cell of the example at most once.
IsExamplePrefix(s) ==
    /\ Range(s) \subseteq ExampleCells
    /\ \A i \in DOMAIN s : \A j \in DOMAIN s : s[i] = s[j] => i = j

\* s is the target column of a whole input file: any cells up to MaxDataRows
\* rows, or the example's five cells in some order.
IsFile(s) ==
    \/ (Len(s) <= MaxDataRows /\ Range(s) \subseteq Cells)
    \/ (IsExamplePrefix(s) /\ Range(s) = ExampleCells)

\* s is the beginning of the target column of an input file.
IsFilePrefix(s) ==
    \/ (Len(s) <= MaxDataRows /\ Range(s) \subseteq Cells)
    \/ IsExamplePrefix(s)

\* ---- collections --------------------------------------------------------
\* Counter: value_counts[value] += 1; a new key goes last (dict order).
CounterAdd(counts, value) ==
    IF \E i \in DOMAIN counts : counts[i].value = value
    THEN [i \in DOMAIN counts |->
             IF counts[i].value = value
             THEN [counts[i] EXCEPT !.count = @ + 1] ELSE counts[i]]
    ELSE Append(counts, [value |-> value, count |-> 1])

\* seq with e put at place k.
InsertAt(seq, k, e) ==
    SubSeq(seq, 1, k - 1) \o <<e>> \o SubSeq(seq, k, Len(seq))

\* Items by descending count, those of equal count by value.
RECURSIVE SortByCountTiesByValue(_)
SortByCountTiesByValue(items) ==
    IF items = <<>> THEN <<>>
    ELSE LET first(a, b) == \/ a.count > b.count
                             \/ (a.count = b.count /\ StrLess(a.value, b.value))
             i == CHOOSE k \in DOMAIN items :
                      \A j \in DOMAIN items : j # k => first(items[k], items[j])
         IN  <<items[i]>> \o SortByCountTiesByValue(
                 SubSeq(items, 1, i - 1) \o SubSeq(items, i + 1, Len(items)))

\* Counter.most_common(): sorted(items, key=count, reverse=True), and the
\* sort is stable: items of equal count keep their insertion order.
RECURSIVE most_common(_)
most_common(items) ==
    IF items = <<>> THEN <<>>
    ELSE LET rest == most_common(SubSeq(items, 1, Len(items) - 1))
             e == items[Len(items)]
             \* e goes after every item whose count is not smaller
             k == Cardinality({j \in DOMAIN rest : rest[j].count >= e.count}) + 1
         IN  InsertAt(rest, k, e)

\* The items left in insertion order.
Unsorted(items) == items

\* sorted(value_counts.items(), key=lambda x: x[0]): by value; keys differ.
RECURSIVE SortedItems(_)
SortedItems(items) ==
    IF items = <<>> THEN <<>>
    ELSE LET i == CHOOSE k \in DOMAIN items :
                      \A j \in DOMAIN items :
                          j # k => StrLess(items[k].value, items[j].value)
         IN  <<items[i]>> \o SortedItems(
                 SubSeq(items, 1, i - 1) \o SubSeq(items, i + 1, Len(items)))

\* sorted(distinct_values)
RECURSIVE SortedSet(_)
SortedSet(S) ==
    IF S = {} THEN <<>>
    ELSE LET m == CHOOSE x \in S : \A y \in S : y # x => StrLess(x, y)
         IN  <<m>> \o SortedSet(S \ {m})

\* list(distinct_values): a set of str iterates in the order of its hash
\* table, which str hash randomisation changes from run to run; any order
\* of the elements is a possible result.
ListOfSet(S) ==
    {s \in [1 .. Cardinality(S) -> S] : Range(s) = S}

\* ---- extract_distinct_values(), lines 84-90: one data row ---------------
\* Without the strip() of line 87.
ScanRowNoStrip(acc, value) ==
    IF Truthy(value)
    THEN [distinct_values |-> acc.distinct_values \cup {value},
          value_counts |-> CounterAdd(acc.value_counts, value)]
    ELSE acc

ScanRow(acc, value) ==
    IF Truthy(value)
    THEN LET v == strip(value)
         IN  IF Truthy(v)
             THEN [distinct_values |-> acc.distinct_values \cup {v},
                   value_counts |-> CounterAdd(acc.value_counts, v)]
             ELSE acc
    ELSE acc

\* Without the check of line 76.
ColumnCheckSkipped(column_name, names) == FALSE

\* line 76: column_name not in reader.fieldnames
ColumnNotFound(column_name, names) == column_name \notin Range(names)

\* ---- main() -------------------------------------------------------------
\* An argument that was not given: None for a path, a falsy value.
NoPath == ""

\* An argument that was not given, where a str is expected: falsy as well.
NoStr == <<>>

\* lines 159-165 and 172-178: the title, the total, the entries.
OutputLines(withCounts, column_name, total, entries) ==
    [column |-> column_name, counts |-> withCounts, total |-> total,
     entries |-> entries]

\* `output_lines` before it is assigned.
NoLines == OutputLines(FALSE, NoStr, 0, <<>>)

XInit ==
    /\ x_pc = "resolve"
    /\ args \in [column_name : {NoStr, COLOR, WEIGHT},
                 csv_file : {NoPath, "export.csv"},
                 output : {NoPath, "out.txt"},
                 count : BOOLEAN,
                 sort : BOOLEAN,
                 list_columns : BOOLEAN]
    /\ csv_file = NoPath
    /\ fieldnames = <<>>
    /\ headers = <<>>
    /\ x_rows = <<>>
    /\ distinct_values = {}
    /\ value_counts = <<>>
    /\ results = <<>>
    /\ output_lines = NoLines
    /\ stdout = [printed |-> FALSE, lines |-> NoLines]
    /\ out_file = [opened |-> FALSE, written |-> FALSE, lines |-> NoLines]
    /\ exit_code = Running
    /\ failure = "none"

\* main returns: the run is over.
Exit(code, why) ==
    /\ x_pc' = "done"
    /\ exit_code' = PyInt(code)
    /\ failure' = why

\* lines 115-123: the path given, or find_catalog_product_file()'s answer.
XResolve ==
    /\ x_pc = "resolve"
    /\ IF args.csv_file # NoPath
       THEN /\ csv_file' = args.csv_file
            /\ x_pc' = "exists"
            /\ UNCHANGED <<exit_code, failure>>
       ELSE \E found \in {NoPath, "catalog_product.csv"} :
                /\ csv_file' = found
                /\ IF found = NoPath
                   THEN Exit(1, "no file found")
                   ELSE /\ x_pc' = "exists"
                        /\ UNCHANGED <<exit_code, failure>>
    /\ UNCHANGED <<args, fieldnames, headers, x_rows, distinct_values, value_counts,
                   results, output_lines, stdout, out_file>>
    /\ UNCHANGED <<cVars, sVars>>

\* lines 125-128: os.path.exists(csv_file)
XExists ==
    /\ x_pc = "exists"
    /\ \E exists \in BOOLEAN :
           IF exists
           THEN /\ x_pc' = "dispatch"
                /\ UNCHANGED <<exit_code, failure>>
           ELSE Exit(1, "file missing")
    /\ UNCHANGED <<args, csv_file, fieldnames, headers, x_rows, distinct_values,
                   value_counts, results, output_lines, stdout, out_file>>
    /\ UNCHANGED <<cVars, sVars>>

\* lines 133-138 with get_csv_headers(), lines 55-64: the header is read and
\* printed, or reading raises, [] is returned and printed; main returns 0.
XListColumns ==
    /\ x_pc = "dispatch"
    /\ args.list_columns
    /\ \/ \E h \in Headers :
              /\ fieldnames' = h
              /\ headers' = [i \in DOMAIN h |-> strip(h[i])]
              /\ Exit(0, "none")
       \/ /\ headers' = <<>>
          /\ Exit(0, "read exception")
          /\ UNCHANGED fieldnames
    /\ UNCHANGED <<args, csv_file, x_rows, distinct_values, value_counts,
                   results, output_lines, stdout, out_file>>
    /\ UNCHANGED <<cVars, sVars>>

\* lines 141-144: no column name, and not listing columns.
XNoColumnName ==
    /\ x_pc = "dispatch"
    /\ ~args.list_columns
    /\ args.column_name = NoStr
    /\ Exit(1, "column name missing")
    /\ UNCHANGED <<args, csv_file, fieldnames, headers, x_rows, distinct_values,
                   value_counts, results, output_lines, stdout, out_file>>
    /\ UNCHANGED <<cVars, sVars>>

\* lines 147-150 with extract_distinct_values(), lines 68-82: the file is
\* opened and its header read; open() raising, an empty file (fieldnames is
\* None, so `in` raises TypeError) and a column that is not in the header
\* all return (None, None), on which main returns 1.
XOpen ==
    /\ x_pc = "dispatch"
    /\ ~args.list_columns
    /\ args.column_name # NoStr
    /\ \/ \E h \in Headers :
              /\ fieldnames' = h
              /\ IF ColumnNotFound(args.column_name, h)
                 THEN Exit(1, "column not found")
                 ELSE /\ x_pc' = "scan"
                      /\ UNCHANGED <<exit_code, failure>>
       \/ /\ Exit(1, "read exception")
          /\ UNCHANGED fieldnames
    /\ UNCHANGED <<args, csv_file, x_rows, distinct_values, value_counts,
                   results, output_lines, stdout, out_file, headers>>
    /\ UNCHANGED <<cVars, sVars>>

\* lines 84-90: the next data row; row[column_name] raises KeyError for a
\* column the row does not have, which lines 94-96 turn into (None, None).
XRow ==
    /\ x_pc = "scan"
    /\ \E value \in Cells \cup ExampleCells :
           /\ IsFilePrefix(Append(x_rows, value))
           /\ IF args.column_name \in Range(fieldnames)
              THEN LET acc == ScanRow([distinct_values |-> distinct_values,
                                       value_counts |-> value_counts], value)
                   IN  /\ x_rows' = Append(x_rows, value)
                       /\ distinct_values' = acc.distinct_values
                       /\ value_counts' = acc.value_counts
                       /\ UNCHANGED <<x_pc, exit_code, failure>>
              ELSE /\ Exit(1, "read exception")
                   /\ UNCHANGED <<x_rows, distinct_values, value_counts>>
    /\ UNCHANGED <<args, csv_file, fieldnames, headers, results, output_lines, stdout,
                   out_file>>
    /\ UNCHANGED <<cVars, sVars>>

\* lines 94-96: reading a row raises (an I/O error, a byte that is not
\* UTF-8, csv.Error); (None, None) is returned and main returns 1.
XRowError ==
    /\ x_pc = "scan"
    /\ Exit(1, "read exception")
    /\ UNCHANGED <<args, csv_file, fieldnames, headers, x_rows, distinct_values,
                   value_counts, results, output_lines, stdout, out_file>>
    /\ UNCHANGED <<cVars, sVars>>

\* line 92: the reader is exhausted; the set and the counter are returned.
XEndOfFile ==
    /\ x_pc = "scan"
    /\ IsFile(x_rows)
    /\ x_pc' = "prepare"
    /\ UNCHANGED <<args, csv_file, fieldnames, headers, x_rows, distinct_values,
                   value_counts, results, output_lines, stdout, out_file,
                   exit_code, failure>>
    /\ UNCHANGED <<cVars, sVars>>

\* lines 153-178: `results` and `output_lines`.
XPrepare ==
    /\ x_pc = "prepare"
    /\ \E r \in (IF args.count
                 THEN {IF args.sort THEN SortedItems(value_counts)
                                    ELSE most_common(value_counts)}
                 ELSE IF args.sort THEN {SortedSet(distinct_values)}
                                   ELSE ListOfSet(distinct_values)) :
           /\ results' = r
           /\ output_lines' = OutputLines(args.count, args.column_name,
                                          Cardinality(distinct_values), r)
    /\ x_pc' = "output"
    /\ UNCHANGED <<args, csv_file, fieldnames, headers, x_rows, distinct_values,
                   value_counts, stdout, out_file, exit_code, failure>>
    /\ UNCHANGED <<cVars, sVars>>

\* lines 181-193: the lines go to the --output file or to stdout.  open()
\* may raise (nothing is opened), or the write may (the file is left empty).
XOutput ==
    /\ x_pc = "output"
    /\ IF args.output # NoPath
       THEN /\ \/ /\ out_file' = [opened |-> TRUE, written |-> TRUE,
                                    lines |-> output_lines]
                  /\ Exit(0, "none")
               \/ /\ UNCHANGED out_file
                  /\ Exit(1, "write failure")
               \/ /\ out_file' = [out_file EXCEPT !.opened = TRUE]
                  /\ Exit(1, "write failure")
            /\ UNCHANGED stdout
       ELSE /\ stdout' = [printed |-> TRUE, lines |-> output_lines]
            /\ Exit(0, "none")
            /\ UNCHANGED out_file
    /\ UNCHANGED <<args, csv_file, fieldnames, headers, x_rows, distinct_values,
                   value_counts, results, output_lines>>
    /\ UNCHANGED <<cVars, sVars>>

(***************************************************************************)
(*                       split_by_language.py                              *)
(***************************************************************************)

\* Data rows of the splitter's input table.
MaxTableRows == 3

\* line 12
COLUMN == "description"

\* Language labels (str).
IT == <<"i", "t">>
EN == <<"e", "n">>
EMPTY == <<"e", "m", "p", "t", "y">>
UNKNOWN == <<"u", "n", "k", "n", "o", "w", "n">>

\* What a call of langdetect's detect() does: it returns a language code or
\* raises LangDetectException.
Raised == <<"LangDetectException">>
DetectOutcomes == {IT, EN, Raised}

\* detect() was not called for the row.
NotCalled == <<"not called">>

\* ---- the input file -----------------------------------------------------
\* Header rows: the column alone, among others, missing, and beside a column
\* that is itself named "lang".
SplitHeaders ==
    { <<"description">>, <<"sku", "description">>, <<"sku">>,
      <<"description", "lang">> }

\* The text of the cells of column "description": empty, whitespace-only,
\* words, and the text NA.
DescTexts ==
    { <<>>, <<" ">>, <<"c", "i", "a", "o">>, <<"N", "A">> }

\* The row of the input file whose description is d, under header h.
FileRow(h, d) ==
    [j \in DOMAIN h |->
        IF h[j] = COLUMN THEN d ELSE IF h[j] = "sku" THEN <<"s", "1">> ELSE <<"f", "r">>]

\* ---- pandas -------------------------------------------------------------
NaN == [type |-> "float", s |-> <<"n", "a", "n">>]
Str(s) == [type |-> "str", s |-> s]

\* pd.read_csv: an empty cell and the text NA are read as NaN (a float),
\* other text as str.
read_cell(text) ==
    IF text = <<>> \/ text = <<"N", "A">> THEN NaN ELSE Str(text)

read_csv(file) ==
    [columns |-> file.columns,
     index |-> [i \in DOMAIN file.rows |-> i],
     data |-> [i \in DOMAIN file.rows |->
                  [j \in DOMAIN file.rows[i] |-> read_cell(file.rows[i][j])]]]

\* DataFrame.to_csv(index=False): NaN is written as the empty text.
to_csv(frame) ==
    [written |-> TRUE,
     columns |-> frame.columns,
     rows |-> [i \in DOMAIN frame.data |->
                  [j \in DOMAIN frame.data[i] |->
                      IF frame.data[i][j].type = "str"
                      THEN frame.data[i][j].s ELSE <<>>]]]

\* The place of column `name` in the frame, 0 if it has none.
ColumnIndex(frame, name) ==
    IF \E j \in DOMAIN frame.columns : frame.columns[j] = name
    THEN CHOOSE j \in DOMAIN frame.columns : frame.columns[j] = name
    ELSE 0

\* frame[name] = values: an existing column is overwritten in place, a new
\* one is added last.
SetColumn(frame, name, values) ==
    LET k == ColumnIndex(frame, name)
    IN  IF k = 0
        THEN [frame EXCEPT
                 !.columns = Append(@, name),
                 !.data = [i \in DOMAIN @ |-> Append(@[i], Str(values[i]))]]
        ELSE [frame EXCEPT
                 !.data = [i \in DOMAIN @ |-> [@[i] EXCEPT ![k] = Str(values[i])]]]

\* seq without its k-th element.
RemoveAt(seq, k) ==
    SubSeq(seq, 1, k - 1) \o SubSeq(seq, k + 1, Len(seq))

\* frame.drop(columns=[name])
DropColumn(frame, name) ==
    LET k == ColumnIndex(frame, name)
    IN  [frame EXCEPT
            !.columns = RemoveAt(@, k),
            !.data = [i \in DOMAIN @ |-> RemoveAt(@[i], k)]]

\* The elements of seq, in order, at the places where mask is TRUE.
RECURSIVE SelectPlaces(_, _)
SelectPlaces(seq, mask) ==
    IF seq = <<>> THEN <<>>
    ELSE (IF Head(mask) THEN <<Head(seq)>> ELSE <<>>)
             \o SelectPlaces(Tail(seq), Tail(mask))

\* frame["lang"]: the column's values.
LangColumn(frame) ==
    [i \in DOMAIN frame.data |-> frame.data[i][ColumnIndex(frame, "lang")].s]

\* frame[mask]: the rows where the boolean Series is TRUE, index kept.
Filter(frame, mask) ==
    [frame EXCEPT
        !.index = SelectPlaces(frame.index, mask),
        !.data = SelectPlaces(frame.data, mask)]

\* ---- lines 36-38: the three masks ----------------------------------------
MaskIt(label) == label = IT

\* Without the second comparison of line 37.
MaskNotIt(label) == label # IT

MaskOther(label) == label # IT /\ label # EMPTY

MaskEmpty(label) == label = EMPTY

\* ---- detect_lang_safe(text), lines 15-22 ---------------------------------
\* `outcome` is what detect() does if it is called.  The result tells the
\* label returned, whether detect() was called, and whether an exception
\* left the function.
DetectResult(label, called, propagated) ==
    [label |-> label, called |-> called, propagated |-> propagated]

\* Without the strip() of line 17.
detect_lang_unstripped(text, outcome) ==
    IF text.type # "str" \/ text.s = <<>>
    THEN DetectResult(EMPTY, FALSE, FALSE)
    ELSE IF outcome = Raised
    THEN DetectResult(UNKNOWN, TRUE, FALSE)
    ELSE DetectResult(outcome, TRUE, FALSE)

detect_lang_safe(text, outcome) ==
    IF text.type # "str" \/ strip(text.s) = <<>>
    THEN DetectResult(EMPTY, FALSE, FALSE)
    ELSE IF outcome = Raised
    THEN DetectResult(UNKNOWN, TRUE, FALSE)
    ELSE DetectResult(outcome, TRUE, FALSE)

\* ---- main() --------------------------------------------------------------
NoFrame == [columns |-> <<>>, index |-> <<>>, data |-> <<>>]
NoFile == [written |-> FALSE, columns |-> <<>>, rows |-> <<>>]

SInit ==
    /\ s_pc = "load"
    /\ \E h \in SplitHeaders : \E ds \in SeqsUpTo(DescTexts, MaxTableRows) :
           input_file = [columns |-> h,
                         rows |-> [i \in DOMAIN ds |-> FileRow(h, ds[i])]]
    /\ df = NoFrame
    /\ lang = <<>>
    /\ detect_log = <<>>
    /\ df_it = NoFrame
    /\ df_other = NoFrame
    /\ df_empty = NoFrame
    /\ output_it = NoFile
    /\ output_other = NoFile
    /\ output_empty = NoFile
    /\ raised = "none"

\* An exception leaves main(): the run ends there.
Crash(exception) ==
    /\ s_pc' = "crashed"
    /\ raised' = exception

\* line 26: df = pd.read_csv(INPUT_FILE), which may raise.
SLoad ==
    /\ s_pc = "load"
    /\ \/ /\ df' = read_csv(input_file)
          /\ s_pc' = "check"
          /\ UNCHANGED raised
       \/ /\ Crash("read_csv")
          /\ UNCHANGED df
    /\ UNCHANGED <<input_file, lang, detect_log, df_it, df_other, df_empty,
                   output_it, output_other, output_empty>>
    /\ UNCHANGED <<cVars, xVars>>

\* lines 28-30
SCheckColumn ==
    /\ s_pc = "check"
    /\ IF ColumnIndex(df, COLUMN) = 0
       THEN Crash("ValueError")
       ELSE /\ s_pc' = "apply"
            /\ UNCHANGED raised
    /\ UNCHANGED <<input_file, df, lang, detect_log, df_it, df_other, df_empty,
                   output_it, output_other, output_empty>>
    /\ UNCHANGED <<cVars, xVars>>

\* line 33, right-hand side: apply() calls detect_lang_safe on the next row.
SDetect ==
    /\ s_pc = "apply"
    /\ Len(lang) < Len(df.data)
    /\ \E outcome \in DetectOutcomes :
           LET i == Len(lang) + 1
               r == detect_lang_safe(df.data[i][ColumnIndex(df, COLUMN)], outcome)
           IN  /\ detect_log' = Append(detect_log,
                                       IF r.called THEN outcome ELSE NotCalled)
               /\ IF r.propagated
                  THEN /\ Crash("detect")
                       /\ UNCHANGED lang
                  ELSE /\ lang' = Append(lang, r.label)
                       /\ UNCHANGED <<s_pc, raised>>
    /\ UNCHANGED <<input_file, df, df_it, df_other, df_empty,
                   output_it, output_other, output_empty>>
    /\ UNCHANGED <<cVars, xVars>>

\* line 33, assignment: df["lang"] = the labels.
SAssign ==
    /\ s_pc = "apply"
    /\ Len(lang) = Len(df.data)
    /\ df' = SetColumn(df, "lang", lang)
    /\ s_pc' = "filter"
    /\ UNCHANGED <<input_file, lang, detect_log, df_it, df_other, df_empty,
                   output_it, output_other, output_empty, raised>>
    /\ UNCHANGED <<cVars, xVars>>

\* lines 36-38
SFilter ==
    /\ s_pc = "filter"
    /\ LET col == LangColumn(df)
       IN  /\ df_it' = DropColumn(
                  Filter(df, [i \in DOMAIN col |-> MaskIt(col[i])]), "lang")
           /\ df_other' = DropColumn(
                  Filter(df, [i \in DOMAIN col |-> MaskOther(col[i])]), "lang")
           /\ df_empty' = DropColumn(
                  Filter(df, [i \in DOMAIN col |-> MaskEmpty(col[i])]), "lang")
    /\ s_pc' = "write_it"
    /\ UNCHANGED <<input_file, df, lang, detect_log,
                   output_it, output_other, output_empty, raised>>
    /\ UNCHANGED <<cVars, xVars>>

\* line 41: df_it.to_csv(OUTPUT_IT, index=False), which may raise.
SWriteIt ==
    /\ s_pc = "write_it"
    /\ \/ /\ output_it' = to_csv(df_it)
          /\ s_pc' = "write_other"
          /\ UNCHANGED raised
       \/ /\ Crash("to_csv")
          /\ UNCHANGED output_it
    /\ UNCHANGED <<input_file, df, lang, detect_log, df_it, df_other, df_empty,
                   output_other, output_empty>>
    /\ UNCHANGED <<cVars, xVars>>

\* line 42
SWriteOther ==
    /\ s_pc = "write_other"
    /\ \/ /\ output_other' = to_csv(df_other)
          /\ s_pc' = "write_empty"
          /\ UNCHANGED raised
       \/ /\ Crash("to_csv")
          /\ UNCHANGED output_other
    /\ UNCHANGED <<input_file, df, lang, detect_log, df_it, df_other, df_empty,
                   output_it, output_empty>>
    /\ UNCHANGED <<cVars, xVars>>

\* line 43
SWriteEmpty ==
    /\ s_pc = "write_empty"
    /\ \/ /\ output_empty' = to_csv(df_empty)
          /\ s_pc' = "done"
          /\ UNCHANGED raised
       \/ /\ Crash("to_csv")
          /\ UNCHANGED output_empty
    /\ UNCHANGED <<input_file, df, lang, detect_log, df_it, df_other, df_empty,
                   output_it, output_other>>
    /\ UNCHANGED <<cVars, xVars>>

(***************************************************************************)
(*                         the specifications                              *)
(***************************************************************************)

\* A utility that is not run.
CIdle ==
    /\ c_pc = "idle"
    /\ c_rows = <<>>
    /\ csvfile = <<>>
    /\ c_pos = 1
    /\ row_count = 0
    /\ c_result = Running

XIdle ==
    /\ x_pc = "idle"
    /\ args = [column_name |-> NoStr, csv_file |-> NoPath, output |-> NoPath,
               count |-> FALSE, sort |-> FALSE, list_columns |-> FALSE]
    /\ csv_file = NoPath
    /\ fieldnames = <<>>
    /\ headers = <<>>
    /\ x_rows = <<>>
    /\ distinct_values = {}
    /\ value_counts = <<>>
    /\ results = <<>>
    /\ output_lines = NoLines
    /\ stdout = [printed |-> FALSE, lines |-> NoLines]
    /\ out_file = [opened |-> FALSE, written |-> FALSE, lines |-> NoLines]
    /\ exit_code = Running
    /\ failure = "none"

SIdle ==
    /\ s_pc = "idle"
    /\ input_file = [columns |-> <<>>, rows |-> <<>>]
    /\ df = NoFrame
    /\ lang = <<>>
    /\ detect_log = <<>>
    /\ df_it = NoFrame
    /\ df_other = NoFrame
    /\ df_empty = NoFrame
    /\ output_it = NoFile
    /\ output_other = NoFile
    /\ output_empty = NoFile
    /\ raised = "none"

\* count_csv_rows.py
InitCounter == CntInit /\ XIdle /\ SIdle
NextCounter == CntOpen \/ CntRow \/ CntReturn \/ CntReadError
SpecCounter == InitCounter /\ [][NextCounter]_vars

\* extract_distinct_values.py
InitExtractor == XInit /\ CIdle /\ SIdle
NextExtractor ==
    \/ XResolve \/ XExists \/ XListColumns \/ XNoColumnName \/ XOpen
    \/ XRow \/ XRowError \/ XEndOfFile \/ XPrepare \/ XOutput
SpecExtractor == InitExtractor /\ [][NextExtractor]_vars

\* split_by_language.py
InitSplitter == SInit /\ CIdle /\ XIdle
NextSplitter ==
    \/ SLoad \/ SCheckColumn \/ SDetect \/ SAssign \/ SFilter
    \/ SWriteIt \/ SWriteOther \/ SWriteEmpty
SpecSplitter == InitSplitter /\ [][NextSplitter]_vars

\* Any one of the three utilities is run.
Init == InitCounter \/ InitExtractor \/ InitSplitter
Next == NextCounter \/ NextExtractor \/ NextSplitter
Spec == Init /\ [][Next]_vars

(***************************************************************************)
(*                             the claims                                  *)
(***************************************************************************)
\* ---- claims about count_csv_rows ---------------------------------------
\* The number of physical lines of a text.
PhysicalLines(text) ==
    Cardinality({i \in DOMAIN text : text[i] = NL})
        + (IF text # <<>> /\ text[Len(text)] # NL THEN 1 ELSE 0)

\* C4: for every readable CSV file count_csv_rows returns the number of
\* logical rows (data rows plus the header row, if any); a newline inside a
\* quoted field neither ends the row nor adds to the count.
C4_CountIsLogicalRows ==
    /\ c_pc = "counting" => row_count <= Len(c_rows)
    /\ (c_pc = "returned" /\ c_result # None) => c_result = PyInt(Len(c_rows))

\* C4 witness: the example file a,b / "multi<newline>line",2 (two logical
\* rows on three physical lines) has been counted as 2.
C4_Witness ==
    /\ c_pc = "returned"
    /\ c_rows = << <<(<<"a">>), (<<"a">>)>>, <<(<<"m", NL, "l">>), (<<"a">>)>> >>
    /\ PhysicalLines(csvfile) = 3
    /\ c_result = PyInt(Len(c_rows))

\* ---- claims about extract_distinct_values --------------------------------
\* The trimmed, non-empty values of the rows' cells.
TrimmedNonEmpty(rows) ==
    {strip(v) : v \in {w \in Range(rows) : w # NoneCell}} \ {<<>>}

\* The data rows whose cell, trimmed, is v.
RowsWith(rows, v) ==
    {i \in DOMAIN rows : rows[i] # NoneCell /\ strip(rows[i]) = v}

\* The data row in which v is first seen.
FirstSeen(rows, v) ==
    CHOOSE i \in RowsWith(rows, v) : \A j \in RowsWith(rows, v) : i <= j

\* main() has built its output lines (lines 153-178 have run).
Prepared == x_pc = "output" \/ (x_pc = "done" /\ output_lines # NoLines)

\* The file exists, its header was read, and the header lacks the column
\* the command line names.
NamesAbsentColumn ==
    /\ x_pc = "done"
    /\ fieldnames # <<>>
    /\ args.column_name # NoStr
    /\ args.column_name \notin Range(fieldnames)

\* C2, as claimed: every invocation on an existing, readable file that names
\* a column the header lacks returns 1, whatever the other flags, and never
\* opens or writes the --output file.
C2_AsClaimed ==
    NamesAbsentColumn =>
        /\ exit_code = PyInt(1)
        /\ ~out_file.opened /\ ~out_file.written

\* C2, amended: such an invocation never opens or writes the --output file;
\* it returns 1 unless --list-columns is given, and with --list-columns it
\* lists the columns and returns 0.
C2_AbsentColumnFails ==
    NamesAbsentColumn =>
        /\ ~out_file.opened /\ ~out_file.written
        /\ ~args.list_columns => exit_code = PyInt(1)
        /\ args.list_columns => exit_code = PyInt(0)

\* C2 witness: a run with --output and without --list-columns named an
\* absent column and returned 1.
C2_Witness ==
    /\ NamesAbsentColumn
    /\ ~args.list_columns
    /\ args.output # NoPath
    /\ exit_code = PyInt(1)

\* C3: the "Total distinct values" reported, with --count and without, is
\* the number of distinct trimmed non-empty values of the column over the
\* data rows; empty and whitespace-only values are neither in the set nor
\* in the counts.
C3_TotalIsCardinality ==
    LET n == Cardinality(TrimmedNonEmpty(x_rows))
    IN  /\ distinct_values = TrimmedNonEmpty(x_rows)
        /\ {value_counts[i].value : i \in DOMAIN value_counts} = TrimmedNonEmpty(x_rows)
        /\ \A i \in DOMAIN value_counts :
               value_counts[i].count
                   = Cardinality(RowsWith(x_rows, value_counts[i].value))
        /\ Prepared => output_lines.total = n
        /\ stdout.printed => stdout.lines.total = n
        /\ out_file.written => out_file.lines.total = n

\* C3 witness: a run with --count reported a total of 1 for rows that hold
\* a value twice (once padded), an empty and a whitespace-only value.
C3_Witness ==
    /\ x_pc = "done"
    /\ args.count
    /\ stdout.printed
    /\ stdout.lines.total = Cardinality(TrimmedNonEmpty(x_rows))
    /\ {<<"a">>, <<" ", "a">>, <<" ", " ">>} \subseteq Range(x_rows)

\* C5: with --count and without --sort the entries are in non-increasing
\* order of count, and values of equal count are in first-seen order.
C5_ByCountThenFirstSeen ==
    (Prepared /\ args.count /\ ~args.sort) =>
        /\ output_lines.entries = results
        /\ {results[i].value : i \in DOMAIN results} = TrimmedNonEmpty(x_rows)
        /\ \A i \in DOMAIN results : \A j \in DOMAIN results :
               i < j =>
                   \/ results[i].count > results[j].count
                   \/ /\ results[i].count = results[j].count
                      /\ FirstSeen(x_rows, results[i].value)
                             < FirstSeen(x_rows, results[j].value)

\* C5 witness: two values of equal count were listed in first-seen order,
\* which is not their alphabetical order.
C5_Witness ==
    /\ x_pc = "done"
    /\ args.count /\ ~args.sort
    /\ stdout.printed
    /\ Len(results) = 2
    /\ results[1].count = results[2].count
    /\ StrLess(results[2].value, results[1].value)

\* s is in ascending alphabetical (code point) order.
Ascending(s) ==
    \A i \in DOMAIN s : \A j \in DOMAIN s : i < j => StrLess(s[i], s[j])

\* C6, as claimed: without --count the values are listed in first-seen
\* order, and with --sort in alphabetical order.
C6_AsClaimed ==
    (Prepared /\ ~args.count) =>
        IF args.sort
        THEN Ascending(results)
        ELSE \A i \in DOMAIN results : \A j \in DOMAIN results :
                 i < j => FirstSeen(x_rows, results[i]) < FirstSeen(x_rows, results[j])

\* The data rows hold exactly the five values of the example.
ExampleRun ==
    /\ Prepared
    /\ args.count /\ args.sort
    /\ args.column_name = COLOR
    /\ Len(x_rows) = Cardinality(ExampleCells)
    /\ Range(x_rows) = ExampleCells

\* C7, as claimed: --sort --count on the rows Red, red, Blue, "" and "  "
\* lists blue with count 1 and red with count 2, total 2.
C7_AsClaimed ==
    ExampleRun =>
        /\ results = << [value |-> <<"b", "l", "u", "e">>, count |-> 1],
                        [value |-> <<"r", "e", "d">>, count |-> 2] >>
        /\ output_lines.total = 2

\* C7, amended: the output lists Blue, Red and red with count 1 each, in
\* code point order, total 3: letter case is kept, and values that differ
\* in case only are distinct.
C7_ExampleOutput ==
    ExampleRun =>
        /\ results = << [value |-> <<"B", "l", "u", "e">>, count |-> 1],
                        [value |-> <<"R", "e", "d">>, count |-> 1],
                        [value |-> <<"r", "e", "d">>, count |-> 1] >>
        /\ output_lines.entries = results
        /\ output_lines.total = 3

\* C7 witness: the example was run and its output printed.
C7_Witness ==
    /\ ExampleRun
    /\ x_pc = "done"
    /\ stdout.printed
    /\ stdout.lines.total = 3

\* C8, as claimed: main returns 1 if a failure occurred and 0 only if none
\* did, on every path, --list-columns included.
C8_AsClaimed ==
    x_pc = "done" => (exit_code = PyInt(1) <=> failure # "none")

\* ---- claims about split_by_language --------------------------------------
\* How many times x occurs in seq.
Occurrences(seq, x) == Cardinality({k \in DOMAIN seq : seq[k] = x})

\* C1: after the run every input row is in exactly one of the three outputs,
\* once: in the Italian one if labelled "it", in the empty one if labelled
\* "empty", in the non-Italian one otherwise; the outputs hold as many rows
\* as the input.
C1_Partition ==
    s_pc = "done" =>
        /\ \A i \in DOMAIN input_file.rows :
               /\ Occurrences(df_it.index, i) = (IF lang[i] = IT THEN 1 ELSE 0)
               /\ Occurrences(df_empty.index, i) = (IF lang[i] = EMPTY THEN 1 ELSE 0)
               /\ Occurrences(df_other.index, i)
                      = (IF lang[i] \notin {IT, EMPTY} THEN 1 ELSE 0)
        /\ output_it.written /\ output_other.written /\ output_empty.written
        /\ Len(output_it.rows) = Len(df_it.index)
        /\ Len(output_other.rows) = Len(df_other.index)
        /\ Len(output_empty.rows) = Len(df_empty.index)
        /\ Len(output_it.rows) + Len(output_other.rows) + Len(output_empty.rows)
               = Len(input_file.rows)

\* C1 witness: a run ended with a row in each output, the non-Italian one
\* holding a row labelled "unknown".
C1_Witness ==
    /\ s_pc = "done"
    /\ Len(output_it.rows) = 1
    /\ Len(output_other.rows) = 1
    /\ Len(output_empty.rows) = 1
    /\ UNKNOWN \in Range(lang)

\* The rows of `file` are the input's rows of `frame`'s index, unchanged,
\* under the input's header.
SameAsInput(file, frame) ==
    /\ file.columns = input_file.columns
    /\ \A k \in DOMAIN file.rows : file.rows[k] = input_file.rows[frame.index[k]]

\* C9, as claimed: each output file has the input's columns, in order, and
\* each row's values unchanged; no input column is lost or overwritten.
C9_AsClaimed ==
    s_pc = "done" =>
        /\ SameAsInput(output_it, df_it)
        /\ SameAsInput(output_other, df_other)
        /\ SameAsInput(output_empty, df_empty)

\* C10: a value that is not a str, or is empty or whitespace-only, is
\* labelled "empty" without a call of the detector; otherwise a failing
\* detector gives "unknown", and else the label is the detector's code; no
\* detector failure leaves detect_lang_safe, and every row gets its label.
C10_DetectLangSafe ==
    /\ raised # "detect"
    /\ s_pc \in {"filter", "write_it", "write_other", "write_empty", "done"}
           => Len(lang) = Len(input_file.rows)
    /\ Len(detect_log) = Len(lang)
    /\ \A i \in DOMAIN lang :
           LET text == df.data[i][ColumnIndex(df, COLUMN)]
           IN  IF text.type # "str" \/ Range(text.s) \subseteq Whitespace
               THEN lang[i] = EMPTY /\ detect_log[i] = NotCalled
               ELSE /\ detect_log[i] \in DetectOutcomes
                    /\ detect_log[i] = Raised => lang[i] = UNKNOWN
                    /\ detect_log[i] # Raised => lang[i] = detect_log[i]

\* C10 witness: the detector failed on a row, the row was labelled
\* "unknown", a later whitespace-only row was labelled "empty" without a
\* call, and the run went on to its end.
C10_Witness ==
    /\ s_pc = "done"
    /\ \E i \in DOMAIN lang : \E j \in DOMAIN lang :
           /\ i < j
           /\ detect_log[i] = Raised /\ lang[i] = UNKNOWN
           /\ input_file.rows[j][ColumnIndex(df, COLUMN)] = <<" ">>
           /\ lang[j] = EMPTY /\ detect_log[j] = NotCalled

====
